---- MODULE Spec2Model ----
(***************************************************************************)
(* MathGraph (src/unnamed/part_000): a React component that turns a JSON   *)
(* text into a function-plot drawing.  The model covers the two effects    *)
(* (ResizeObserver, frame-scheduled drawGraph), the normalisation and      *)
(* series processing inside drawGraph, and the JSX that shows the legend   *)
(* and the error banner.                                                   *)
(*                                                                         *)
(* JSON values are tagged records [t, v]: t is the JavaScript type, v the  *)
(* payload.  An object's payload is a record that carries every field the  *)
(* code reads; a field the text does not give is Undef.                    *)
(***************************************************************************)
EXTENDS Integers, Sequences, FiniteSets

VARIABLES
    mounted,        \* the component is mounted
    observing,      \* the ResizeObserver is connected to containerRef
    code,           \* the `code` prop: the input text
    dimensions,     \* useState dimensions {width, height}
    error,          \* useState error: Null or a string
    legendItems,    \* useState legendItems: sequence of processed series
    chartInstance,  \* chartInstance.current: Null or the plot handle
    surface,        \* content of rootEl: the plots the engine has put there
    hostSize,       \* size of the outer box the page gives the component
    observed,       \* the content rect the observer reported last
    rafQueue,       \* animation-frame callbacks waiting for the next frame
    view,           \* the committed JSX: legend entries and banner shown
    committed,      \* the props and state of the last commit that the
                    \* draw effect depends on: {code, dimensions}
    queued,         \* what was set since the last commit and React has yet
                    \* to render: "dimensions" (setDimensions) and "state"
                    \* (setError, setLegendItems)
    effectDue,      \* the last commit changed code or dimensions and the
                    \* draw effect (a passive effect) has not run yet
    cleanupDue,     \* React removed the component and has not run the
                    \* effects' cleanups yet
    lastFrame,      \* the render passes this state's frame ran (if it is
                    \* the state a frame produced; empty otherwise)
    triggers,       \* effect runs that scheduled the draw pending now, or
                    \* the draw the latest frame ran (counted up to
                    \* MaxTriggers)
    atZero,         \* every trigger since the last effect run came while
                    \* the container had a zero side
    drawAtZero,     \* so did every trigger that the effect run answered
                    \* which scheduled the draw pending now (or run last)
    changes,        \* how many changes from outside there have been (up to
                    \* MaxChanges)
    external        \* changes from outside (a new input text, a resize of
                    \* the outer box) that no frame has answered yet:
                    \* "unreported" when a resize of the outer box has not
                    \* reached the observer, "pending" when all have but a
                    \* frame is still to answer one, "none" otherwise

vars == <<mounted, observing, code, dimensions, error, legendItems,
          chartInstance, surface, hostSize, observed, rafQueue, view,
          committed, queued, effectDue, cleanupDue,
          lastFrame, triggers, atZero, drawAtZero, changes, external>>

-----------------------------------------------------------------------------
(* Bounds of the model *)

MaxSeries == 2
MaxTriggers == 2
MaxChanges == 2

(* The legend region (line 221) in pixels: a row of entries is 16 high    *)
(* (text-xs), rows are 16 apart (gap-4), so a further row adds 32; the    *)
(* padding (py-3) and the top border add 24 + 1 to the first row's 16.    *)
LegendRowPitch == 32
LegendChrome == 9

-----------------------------------------------------------------------------
(* JSON / JavaScript values *)

Undef == [t |-> "undefined", v |-> 0]
Null == [t |-> "null", v |-> 0]
Num(n) == [t |-> "number", v |-> n]
Str(s) == [t |-> "string", v |-> s]
Bool(b) == [t |-> "boolean", v |-> b]
Arr(s) == [t |-> "array", v |-> s]
Obj(r) == [t |-> "object", v |-> r]

(* JavaScript truthiness, as `||`, `!x` and `x ? :` see it. *)
Truthy(x) ==
    CASE x.t = "undefined" -> FALSE
      [] x.t = "null" -> FALSE
      [] x.t = "boolean" -> x.v
      [] x.t = "number" -> x.v # 0
      [] x.t = "string" -> x.v # ""
      [] OTHER -> TRUE

(* a || b *)
OrElse(a, b) == IF Truthy(a) THEN a ELSE b

(* Array.isArray(x) *)
IsArray(x) == x.t = "array"

(* x.key on a value that is neither null nor undefined. *)
Get(x, key) ==
    IF x.t = "object" /\ key \in DOMAIN x.v THEN x.v[key] ELSE Undef

(* The characters a string value may be made of. *)
Alphabet ==
    {"a", "b", "c", "d", "e", "f", "g", "h", "i", "j", "k", "l", "m", "n",
     "o", "p", "q", "r", "s", "t", "u", "v", "w", "x", "y", "z", "0", "1",
     "2", "3", "4", "5", "6", "7", "8", "9", " ", "(", ")", "+", "-", "^",
     "#", ",", "."}

RECURSIVE Join(_)
Join(q) == IF q = <<>> THEN "" ELSE Head(q) \o Join(Tail(q))

(* The characters of a string, in order. *)
CharsOf(s) == CHOOSE q \in [1..Len(s) -> Alphabet] : Join(q) = s

(* The property name an index stands for: x[0] is x["0"]. *)
IndexKey(i) ==
    <<"0", "1", "2", "3", "4", "5", "6", "7", "8", "9">>[i + 1]

(* x[i] (0-based) on a truthy value: the element of an array, the          *)
(* character of a string, the property named i of an object, undefined on  *)
(* anything else or past the end.                                          *)
Index(x, i) ==
    IF x.t = "array" /\ i + 1 <= Len(x.v) THEN x.v[i + 1]
    ELSE IF x.t = "string" /\ i + 1 <= Len(x.v)
         THEN Str(CharsOf(x.v)[i + 1])
         ELSE IF x.t = "object" THEN Get(x, IndexKey(i)) ELSE Undef

(* Reading a property of null or undefined throws a TypeError. *)
Nullish(x) == x.t \in {"null", "undefined"}

TypeErrorOf(x, key) ==
    [isError |-> TRUE,
     message |-> IF key = "data"
                 THEN "Cannot read properties of null (reading 'data')"
                 ELSE "Cannot read properties of null (reading 'fnType')"]

NoExc == [isError |-> FALSE, message |-> ""]

-----------------------------------------------------------------------------
(* Constants of the component *)

LEGEND_COLORS ==
    <<"#2563eb", "#dc2626", "#16a34a", "#9333ea", "#ea580c", "#0891b2",
      "#db2777">>

(* `Function ${index + 1}` *)
FunctionLabel(index) ==
    <<"Function 1", "Function 2", "Function 3", "Function 4", "Function 5",
      "Function 6", "Function 7", "Function 8">>[index + 1]

DefaultDomain == Arr(<<Num(-10), Num(10)>>)

(* A FunctionItem with no field given, and a top-level object with none. *)
EmptyItem ==
    [fn |-> Undef, fnType |-> Undef, color |-> Undef, graphType |-> Undef,
     vector |-> Undef, range |-> Undef, label |-> Undef, closed |-> Undef]

EmptyAxis == [domain |-> Undef]

EmptyTop ==
    [data |-> Undef, fn |-> Undef, domain |-> Undef, range |-> Undef,
     xAxis |-> Undef, yAxis |-> Undef, grid |-> Undef]

-----------------------------------------------------------------------------
(* The input text.  A text is well formed JSON (and then stands for the    *)
(* value it decodes to) or it is not.                                      *)

Text(doc) == [wf |-> TRUE, doc |-> doc]
BadText == [wf |-> FALSE, doc |-> Str("not json")]

(* JSON.parse(code) with its catch: the value, or the parse Error. *)
JSONparse(text) ==
    IF text.wf
    THEN [ok |-> TRUE, value |-> text.doc, exc |-> NoExc]
    ELSE [ok |-> FALSE, value |-> Undef,
          exc |-> [isError |-> TRUE, message |-> "Failed to parse diagram"]]

-----------------------------------------------------------------------------
(* Normalization (drawGraph, "Normalization") *)

(* The legacy shorthand: one series synthesized from the top-level fields. *)
LegacyConfigIgnoresDomain(parsed) ==
    Obj([EmptyTop EXCEPT
        !.data = Arr(<<Obj([EmptyItem EXCEPT
                        !.fn = OrElse(Get(parsed, "fn"), Str("x")),
                        !.color = Str(LEGEND_COLORS[1]),
                        !.graphType = Str("polyline"),
                        !.label = Get(parsed, "fn"),
                        !.range = Get(parsed, "range")])>>),
        !.xAxis = Obj([EmptyAxis EXCEPT !.domain = DefaultDomain]),
        !.yAxis = Obj([EmptyAxis EXCEPT !.domain = DefaultDomain]),
        !.grid = Bool(TRUE)])

LegacyConfig(parsed) ==
    Obj([EmptyTop EXCEPT
        !.data = Arr(<<Obj([EmptyItem EXCEPT
                        !.fn = OrElse(Get(parsed, "fn"), Str("x")),
                        !.color = Str(LEGEND_COLORS[1]),
                        !.graphType = Str("polyline"),
                        !.label = Get(parsed, "fn"),
                        !.range = Get(parsed, "range")])>>),
        !.xAxis = Obj([EmptyAxis EXCEPT
                        !.domain = OrElse(Get(parsed, "domain"),
                                          DefaultDomain)]),
        !.yAxis = Obj([EmptyAxis EXCEPT !.domain = DefaultDomain]),
        !.grid = Bool(TRUE)])

(* if (Array.isArray(parsed.data)) config = parsed; else the legacy config. *)
(* parsed.data on null throws.                                              *)
Normalize(parsed) ==
    IF Nullish(parsed)
    THEN [ok |-> FALSE, config |-> Undef, exc |-> TypeErrorOf(parsed, "data")]
    ELSE IF IsArray(Get(parsed, "data"))
         THEN [ok |-> TRUE, config |-> parsed, exc |-> NoExc]
         ELSE [ok |-> TRUE, config |-> LegacyConfig(parsed), exc |-> NoExc]

-----------------------------------------------------------------------------
(* Series processing (drawGraph, "PREPARE DATA") *)

(* { ...item }: the own fields of an object; a number or a boolean has none. *)
Spread(item) == IF item.t = "object" THEN item.v ELSE EmptyItem

(* const fnType = item.fnType || "linear" *)
FnTypeOf(item) == OrElse(Get(item, "fnType"), Str("linear"))

(* let graphType = item.graphType; if (!graphType) { ... } *)
GraphTypeOf(item) ==
    IF Truthy(Get(item, "graphType"))
    THEN Get(item, "graphType")
    ELSE IF FnTypeOf(item) = Str("implicit") THEN Str("interval")
         ELSE IF FnTypeOf(item) = Str("points") THEN Str("scatter")
         ELSE Str("polyline")

(* color: item.color || LEGEND_COLORS[index % LEGEND_COLORS.length] *)
ColorOfShortWrap(item, index) ==
    OrElse(Get(item, "color"),
           Str(LEGEND_COLORS[(index % (Len(LEGEND_COLORS) - 1)) + 1]))

ColorOf(item, index) ==
    OrElse(Get(item, "color"),
           Str(LEGEND_COLORS[(index % Len(LEGEND_COLORS)) + 1]))

(* label: item.label || item.fn || `Function ${index + 1}` *)
LabelOfOwnOnly(item, index) == Get(item, "label")

LabelOf(item, index) ==
    OrElse(OrElse(Get(item, "label"), Get(item, "fn")),
           Str(FunctionLabel(index)))

(* vector: item.vector ? [item.vector[0], item.vector[1]] : undefined *)
VectorOf(item) ==
    IF Truthy(Get(item, "vector"))
    THEN Arr(<<Index(Get(item, "vector"), 0), Index(Get(item, "vector"), 1)>>)
    ELSE Undef

(* range: fnType !== "implicit" && Array.isArray(item.range) &&            *)
(*        item.range.length === 2 ? [item.range[0], item.range[1]]         *)
(*                                : undefined                              *)
RangeOfImplicitKept(item) ==
    IF IsArray(Get(item, "range")) /\ Len(Get(item, "range").v) = 2
    THEN Arr(<<Index(Get(item, "range"), 0), Index(Get(item, "range"), 1)>>)
    ELSE Undef

RangeOf(item) ==
    IF /\ FnTypeOf(item) # Str("implicit")
       /\ IsArray(Get(item, "range"))
       /\ Len(Get(item, "range").v) = 2
    THEN Arr(<<Index(Get(item, "range"), 0), Index(Get(item, "range"), 1)>>)
    ELSE Undef

(* The callback of config.data.map: item.fnType on null throws. *)
ProcessItem(item, index) ==
    IF Nullish(item)
    THEN [ok |-> FALSE, value |-> EmptyItem,
          exc |-> TypeErrorOf(item, "fnType")]
    ELSE [ok |-> TRUE,
          value |-> [Spread(item) EXCEPT
                        !.fnType = FnTypeOf(item),
                        !.graphType = GraphTypeOf(item),
                        !.color = ColorOf(item, index),
                        !.label = LabelOf(item, index),
                        !.vector = VectorOf(item),
                        !.range = RangeOf(item)],
          exc |-> NoExc]

(* config.data.map(...): the first entry that throws ends the map. *)
processedData(data) ==
    LET bad == {i \in 1..Len(data) : ~ProcessItem(data[i], i - 1).ok}
    IN  IF bad # {}
        THEN [ok |-> FALSE, value |-> <<>>,
              exc |-> ProcessItem(data[CHOOSE i \in bad :
                                        \A j \in bad : i <= j], 0).exc]
        ELSE [ok |-> TRUE,
              value |-> [i \in 1..Len(data) |->
                            ProcessItem(data[i], i - 1).value],
              exc |-> NoExc]

-----------------------------------------------------------------------------
(* The plotting engine (function-plot), an external collaborator.  It      *)
(* parses each series' expression and throws on one it cannot parse.       *)

RejectedExprs == {"x+"}
CrashingExprs == {"#crash"}
EngineMessage == "Unexpected end of expression"

(* config.xAxis?.domain || [-10, 10] *)
DomainOf(axis) ==
    OrElse(IF Nullish(axis) THEN Undef ELSE Get(axis, "domain"),
           DefaultDomain)

(* The options drawGraph passes to functionPlot. *)
EngineOptions(config, dims, data) ==
    [width |-> dims.width, height |-> dims.height,
     grid |-> Get(config, "grid") # Bool(FALSE),
     xDomain |-> DomainOf(Get(config, "xAxis")),
     yDomain |-> DomainOf(Get(config, "yAxis")),
     data |-> data]

NoOptions ==
    [width |-> 0, height |-> 0, grid |-> FALSE, xDomain |-> Undef,
     yDomain |-> Undef, data |-> <<>>]

functionPlot(opts) ==
    IF \E i \in 1..Len(opts.data) :
          opts.data[i].fn.t = "string" /\ opts.data[i].fn.v \in RejectedExprs
    THEN [ok |-> FALSE,
          exc |-> [isError |-> TRUE, message |-> EngineMessage]]
    ELSE IF \E i \in 1..Len(opts.data) :
               opts.data[i].fn.t = "string"
               /\ opts.data[i].fn.v \in CrashingExprs
         THEN [ok |-> FALSE,
               exc |-> [isError |-> FALSE, message |-> "crash"]]
         ELSE [ok |-> TRUE, exc |-> NoExc]

-----------------------------------------------------------------------------
(* drawGraph: one render pass.  It runs synchronously inside the frame     *)
(* callback (it awaits nothing), so its state updates commit together.     *)

(* The stages of the pass that the try block (lines 76-181) encloses. *)
TryCoversEngineOnly(stage) == stage = "engine"

TryCovers(stage) == stage \in {"parse", "normalize", "process", "engine"}

(* catch (e): e instanceof Error ? e.message : "Invalid graph data." *)
CatchMessage(exc) ==
    Str(IF exc.isError THEN exc.message ELSE "Invalid graph data.")

(* The legend state a pass leaves when it throws before setLegendItems. *)
LegendClearedOnThrow(before) == <<>>

LegendOnThrow(before) == before

(* rootEl.current.innerHTML = "": the host element loses its content. *)
ClearHostKeeps(content) == content

ClearHost(content) == <<>>

(* functionPlot({target: rootEl.current, ...}) puts its plot into the host *)
(* element, next to what the element holds.                                *)
HostAfter(content, plots) == content \o plots

(* What a pass has computed so far (its local variables). *)
NoProgress ==
    [config |-> Undef, cleared |-> FALSE, processedOk |-> FALSE,
     processed |-> <<>>, calls |-> <<>>]

(* The stages at which a pass returns without throwing: after the engine  *)
(* call, or at line 152 when rootEl.current is null.                      *)
Returned(stage) == stage \in {"done", "detached"}

(* The end of a pass: `stage` is the statement that threw, or the one that *)
(* returned; exc what it threw.  cl is the closure of the effect run that  *)
(* scheduled the pass ({code, dimensions}); st the component's state and   *)
(* refs when the pass starts (st.attached: rootEl.current is not null).    *)
(* setError(null) has run at the top of the pass.                          *)
EndOfPass(cl, st, stage, exc, pr) ==
    [st |->
        [error |-> IF ~Returned(stage) /\ TryCovers(stage)
                   THEN CatchMessage(exc) ELSE Null,
         legendItems |-> IF pr.processedOk THEN pr.processed
                         ELSE LegendOnThrow(st.legendItems),
         surface |-> HostAfter(IF pr.cleared THEN ClearHost(st.surface)
                                             ELSE st.surface,
                               IF stage = "done" THEN pr.calls ELSE <<>>),
         chartInstance |-> IF stage = "done" THEN pr.calls
                           ELSE st.chartInstance,
         attached |-> st.attached],
     pass |->
        [code |-> cl.code, dimensions |-> cl.dimensions, stage |-> stage,
         config |-> pr.config, cleared |-> pr.cleared,
         processedOk |-> pr.processedOk, processed |-> pr.processed,
         calls |-> pr.calls,
         attached |-> st.attached,
         threw |-> ~Returned(stage),
         exc |-> exc,
         escaped |-> ~Returned(stage) /\ ~TryCovers(stage)]]

(* const instance = functionPlot({...}); chartInstance.current = instance *)
CallEngine(cl, st, pr, opts) ==
    LET e == functionPlot(opts)
    IN  EndOfPass(cl, st, IF e.ok THEN "done" ELSE "engine", e.exc,
                  [pr EXCEPT !.calls = <<opts>>])

(* setLegendItems(processedData); if (!rootEl.current) return; then the   *)
(* engine call.                                                           *)
AfterProcess(cl, st, pr, m) ==
    IF ~m.ok
    THEN EndOfPass(cl, st, "process", m.exc, pr)
    ELSE IF ~st.attached
    THEN EndOfPass(cl, st, "detached", NoExc,
                   [pr EXCEPT !.processedOk = TRUE, !.processed = m.value])
    ELSE CHOOSE r \in
            {CallEngine(cl, st,
                 [pr EXCEPT !.processedOk = TRUE, !.processed = m.value],
                 opts) :
               opts \in {EngineOptions(pr.config, cl.dimensions, m.value)}} :
            TRUE

(* if (rootEl.current) rootEl.current.innerHTML = "", then               *)
(* config.data.map(...).                                                  *)
AfterNormalize(cl, st, n) ==
    IF ~n.ok
    THEN EndOfPass(cl, st, "normalize", n.exc, NoProgress)
    ELSE CHOOSE r \in
            {AfterProcess(cl, st,
                 [NoProgress EXCEPT !.config = n.config,
                                    !.cleared = st.attached],
                 m) :
               m \in {processedData(Get(n.config, "data").v)}} : TRUE

AfterParse(cl, st, p) ==
    IF ~p.ok
    THEN EndOfPass(cl, st, "parse", p.exc, NoProgress)
    ELSE CHOOSE r \in
            {AfterNormalize(cl, st, n) : n \in {Normalize(p.value)}} : TRUE

drawGraph(cl, st) ==
    CHOOSE r \in {AfterParse(cl, st, p) : p \in {JSONparse(cl.code)}} : TRUE

(* The frame runs every callback that is queued, in order. *)
RECURSIVE RunCallbacks(_, _, _)
RunCallbacks(q, st, log) ==
    IF q = <<>>
    THEN [st |-> st, log |-> log]
    ELSE CHOOSE x \in
            {RunCallbacks(Tail(q), r.st, Append(log, r.pass)) :
               r \in {drawGraph(Head(q), st)}} : TRUE

-----------------------------------------------------------------------------
(* The JSX (lines 193-246) and the layout it produces *)

(* {legendItems.length > 0 && !error && ...} *)
LegendShownDespiteError(err, items) == Len(items) > 0

LegendShown(err, items) == Len(items) > 0 /\ ~Truthy(err)

(* {error && ...} *)
BannerShown(err) == Truthy(err)

(* The committed output: one {color, label} swatch per legend item, in     *)
(* order, when the legend region is rendered; the banner's message.        *)
Render(err, items) ==
    [legend |-> IF LegendShown(err, items)
                THEN [i \in 1..Len(items) |->
                        [color |-> items[i].color, label |-> items[i].label]]
                ELSE <<>>,
     legendRegion |-> LegendShown(err, items),
     banner |-> IF BannerShown(err) THEN err ELSE Null]

(* The legend wraps (flex flex-wrap): in a box `width` entries wide, n     *)
(* entries take ceil(n / width) rows.  Widths are counted in legend        *)
(* entries, heights in pixels.                                             *)
LegendRows(n, width) == (n + width - 1) \div width

(* The height of the legend region as laid out: nothing when it is not     *)
(* rendered.                                                               *)
LegendHeight(v, width) ==
    IF v.legendRegion /\ width > 0
    THEN LegendChrome + LegendRowPitch * LegendRows(Len(v.legend), width)
    ELSE 0

(* The outer box is a flex column: the legend region (flex-none) takes its *)
(* height when rendered and the container (flex-1, min-h-0) the rest.  The *)
(* banner is absolutely positioned and takes no room.                      *)
ContainerRect(host, v) ==
    [width |-> host.width,
     height |-> IF host.height > LegendHeight(v, host.width)
                THEN host.height - LegendHeight(v, host.width) ELSE 0]

-----------------------------------------------------------------------------
(* The draw effect (lines 69-191), deps [code, dimensions] *)

(* return () => cancelAnimationFrame(rafId): the cleanup of the previous   *)
(* run removes the callback that run queued, if it still waits.            *)
Cleanup(q) == IF q = <<>> THEN q ELSE SubSeq(q, 1, Len(q) - 1)

DrawGuardInverted(dims) == ~(dims.width = 0 \/ dims.height = 0)

(* if (!rootEl.current || dimensions.width === 0 || dimensions.height === 0) *)
(*   return;                                                                 *)
DrawGuard(dims) == dims.width = 0 \/ dims.height = 0

(* One run of the effect after a change of code or dimensions. *)
DrawEffectNoCancel(q, c, dims) ==
    IF DrawGuard(dims)
    THEN q
    ELSE Append(q, [code |-> c, dimensions |-> dims])

DrawEffect(q, c, dims) ==
    IF DrawGuard(dims)
    THEN Cleanup(q)
    ELSE Append(Cleanup(q), [code |-> c, dimensions |-> dims])

Scheduled(dims) == ~DrawGuard(dims)

-----------------------------------------------------------------------------
(* Input texts *)

Series(fn) == Obj([EmptyItem EXCEPT !.fn = Str(fn)])

Advanced(items) == Text(Obj([EmptyTop EXCEPT !.data = Arr(items)]))

Legacy(fn, domain, range, data) ==
    Text(Obj([EmptyTop EXCEPT
        !.fn = fn, !.domain = domain, !.range = range, !.data = data]))

(* The texts the lifecycle is explored with. *)
Codes ==
    { BadText,
      Legacy(Str("x^2"), Undef, Undef, Undef),
      Advanced(<<Series("sin(x)"),
                 Obj([EmptyItem EXCEPT !.fn = Str("cos(x)"),
                                       !.color = Str("#000")])>>),
      Advanced(<<Series("sin(x)"), Series("x+")>>),
      Advanced(<<Series("#crash")>>),
      Advanced(<<Series("sin(x)"), Null>>),
      Advanced(<<>>) }

(* The texts the settling of the coordinator is explored with: one that   *)
(* shows a legend, one that renders without a legend, one that fails to   *)
(* parse and one whose legend is set before the engine rejects it.        *)
LiveCodes ==
    { BadText,
      Legacy(Str("x^2"), Undef, Undef, Undef),
      Advanced(<<Series("sin(x)"), Series("x+")>>),
      Advanced(<<>>) }

RangeInputs ==
    { Undef, Null, Num(7), Arr(<<Num(0)>>), Arr(<<Num(0), Num(5)>>),
      Arr(<<Num(5), Num(0)>>), Arr(<<Str("a"), Num(1)>>),
      Arr(<<Num(0), Num(5), Num(9)>>) }

LegacyCodes ==
    { Legacy(fn, domain, range, data) :
        fn \in {Undef, Str(""), Str("x^2")},
        domain \in {Undef, Null, Arr(<<Num(0), Num(5)>>)},
        range \in RangeInputs,
        data \in {Undef, Str("rows")} }
    \cup {Text(Num(5)), Text(Arr(<<>>)), Text(Str("s")), Text(Bool(TRUE)),
          Text(Null)}

WideItems ==
    { Obj([EmptyItem EXCEPT
            !.fn = fn, !.fnType = fnType, !.graphType = graphType,
            !.range = range]) :
        fn \in {Undef, Str("x^2")},
        fnType \in {Undef, Str("linear"), Str("implicit"), Str("points"),
                    Str("parametric"), Str("vector"), Str("bogus")},
        graphType \in {Undef, Str("scatter")},
        range \in RangeInputs }

NarrowItems ==
    { Series("sin(x)"),
      Obj([EmptyItem EXCEPT !.fn = Str("cos(x)"), !.color = Str("#000")]),
      Obj([EmptyItem EXCEPT !.fn = Str("x^2+y^2-4"),
                            !.fnType = Str("implicit"),
                            !.range = Arr(<<Num(0), Num(5)>>)]),
      Num(5),
      Null }

(* Entries that give, leave out or leave empty the label, the expression *)
(* and the color.                                                        *)
LabelItems ==
    { Obj([EmptyItem EXCEPT !.label = label, !.fn = fn, !.color = color]) :
        label \in {Undef, Str(""), Str("f")},
        fn \in {Undef, Str(""), Str("x^2")},
        color \in {Undef, Str(""), Str("#000")} }

(* Entries of kind vector with the vector given in every length. *)
VectorItems ==
    { Obj([EmptyItem EXCEPT !.fnType = Str("vector"), !.vector = vector]) :
        vector \in {Undef, Null, Arr(<<>>), Arr(<<Num(1)>>),
                    Arr(<<Num(1), Num(2)>>),
                    Arr(<<Num(1), Num(2), Num(3)>>),
                    Str(""), Str("a"), Str("ab"), Num(5),
                    Obj([k \in {"0", "1"} |->
                            IF k = "0" THEN Num(1) ELSE Num(2)]),
                    Obj([k \in {"0"} |-> Str("a")]),
                    Obj([k \in {"x"} |-> Num(1)])} }

(* One entry more than the palette has colors, the third with its own. *)
LongData ==
    [i \in 1..(Len(LEGEND_COLORS) + 1) |->
        IF i = 3
        THEN Obj([EmptyItem EXCEPT !.fn = Str("cos(x)"),
                                   !.color = Str("#000")])
        ELSE Series("sin(x)")]

SeqsUpTo(S, n) == UNION {[1..k -> S] : k \in 0..n}

AdvancedCodes ==
    {Advanced(<<item>>) : item \in WideItems \cup LabelItems \cup VectorItems}
    \cup {Advanced(<<Series("sin(x)"), item>>) : item \in LabelItems}
    \cup {Advanced(items) : items \in SeqsUpTo(NarrowItems, MaxSeries)}
    \cup {Advanced(LongData)}

(* The texts normalization and series processing are explored with. *)
WideCodes == {BadText} \cup LegacyCodes \cup AdvancedCodes

(* The outer box is hidden (display: none gives a 0 x 0 rect) or laid out: *)
(* narrow (one legend entry to a row) or wide (every entry of the model's  *)
(* lists in one row), and low (as high as a one-row legend, so that a      *)
(* legend leaves the container no height) or high (twice that, so that a   *)
(* two-row legend leaves it some).                                         *)
Widths == {1, MaxSeries}

LowBox == LegendChrome + LegendRowPitch

HighBox == LowBox + LowBox

Heights == {LowBox, HighBox}

ZeroRect == [width |-> 0, height |-> 0]

Sizes ==
    {ZeroRect} \cup {[width |-> w, height |-> h] : w \in Widths, h \in Heights}

(* The count of triggers: a trigger with no draw pending is the first. *)
Count(q, n) ==
    IF q = <<>> THEN 1 ELSE IF n < MaxTriggers THEN n + 1 ELSE MaxTriggers

ZeroSize(rect) == rect.width = 0 \/ rect.height = 0

Unobserved == [width |-> -1, height |-> -1]

(* The deps of the draw effect as a render captures them. *)
Deps(c, dims) == [code |-> c, dimensions |-> dims]

(* A change that the draw effect has yet to answer is on its way. *)
TriggerPending ==
    code # committed.code \/ "dimensions" \in queued \/ effectDue

-----------------------------------------------------------------------------
(* The state machine.  One step is one turn of the event loop.             *)

Init ==
    /\ mounted = TRUE
    /\ observing = TRUE
    /\ code \in Codes
    /\ dimensions = ZeroRect
    /\ error = Null
    /\ legendItems = <<>>
    /\ chartInstance = <<>>
    /\ surface = <<>>
    /\ hostSize \in Sizes
    /\ observed = Unobserved
    /\ rafQueue = <<>>
    /\ view = Render(Null, <<>>)
    /\ committed = Deps(code, dimensions)
    /\ queued = {}
    /\ effectDue = FALSE
    /\ cleanupDue = FALSE
    /\ lastFrame = <<>>
    /\ triggers = 0
    /\ atZero = FALSE
    /\ drawAtZero = FALSE
    /\ changes = 0
    /\ external = "unreported"

(* The parent passes a new `code`; React has yet to render it. *)
CodeChange(c) ==
    /\ mounted
    /\ c # code
    /\ changes < MaxChanges
    /\ changes' = changes + 1
    /\ code' = c
    /\ atZero' = (ZeroSize(ContainerRect(hostSize, view))
                    /\ (TriggerPending => atZero))
    /\ lastFrame' = <<>>
    /\ external' = IF external = "none" THEN "pending" ELSE external
    /\ UNCHANGED <<mounted, observing, dimensions, error, legendItems,
                   chartInstance, surface, hostSize, observed, rafQueue,
                   view, committed, queued, effectDue, cleanupDue, triggers,
                   drawAtZero>>

(* The page lays the outer box out at another size (or hides it). *)
HostResize(size) ==
    /\ mounted
    /\ size # hostSize
    /\ changes < MaxChanges
    /\ changes' = changes + 1
    /\ hostSize' = size
    /\ lastFrame' = <<>>
    /\ external' = "unreported"
    /\ UNCHANGED <<mounted, observing, code, dimensions, error, legendItems,
                   chartInstance, surface, observed, rafQueue, view,
                   committed, queued, effectDue, cleanupDue, triggers,
                   atZero, drawAtZero>>

(* if (width > 0 && height > 0) setDimensions({ width, height }) *)
ReportAccepted(rect) == rect.width > 0 /\ rect.height > 0

(* The ResizeObserver callback (lines 56-63): the content rect of the      *)
(* container in the DOM as committed (an element React has removed         *)
(* measures 0 x 0) differs from the one reported last.  The callback only  *)
(* sets the state; React renders it in a later turn.                       *)
ObserverReport ==
    LET rect == IF mounted THEN ContainerRect(hostSize, view) ELSE ZeroRect
    IN  /\ observing
        /\ rect # observed
        /\ observed' = rect
        /\ IF ReportAccepted(rect)
           THEN /\ dimensions' = rect
                /\ queued' = queued \cup {"dimensions"}
                /\ atZero' = FALSE
           ELSE UNCHANGED <<dimensions, queued, atZero>>
        /\ lastFrame' = <<>>
        /\ external' = IF external = "unreported" THEN "pending" ELSE external
        /\ UNCHANGED <<changes, mounted, observing, code, error, legendItems,
                       chartInstance, surface, hostSize, rafQueue, view,
                       committed, effectDue, cleanupDue, triggers,
                       drawAtZero>>

(* React renders the component with the props and state it has now and     *)
(* commits the JSX (lines 193-246).  The passive effects of the commit     *)
(* before have run by then; the draw effect is due when code or dimensions *)
(* changed (setDimensions always stores a new object).                     *)
Commit ==
    /\ mounted
    /\ ~effectDue
    /\ code # committed.code \/ queued # {}
    /\ view' = Render(error, legendItems)
    /\ committed' = Deps(code, dimensions)
    /\ effectDue' = (code # committed.code \/ "dimensions" \in queued)
    /\ queued' = {}
    /\ lastFrame' = <<>>
    /\ UNCHANGED <<changes, mounted, observing, code, dimensions, error,
                   legendItems, chartInstance, surface, hostSize, observed,
                   rafQueue, cleanupDue, triggers, atZero, drawAtZero,
                   external>>

(* The draw effect runs after the commit: the cleanup of its previous run, *)
(* then the guard and requestAnimationFrame(drawGraph) (lines 69-72, 189). *)
RunEffect ==
    /\ effectDue
    /\ effectDue' = FALSE
    /\ rafQueue' = DrawEffect(rafQueue, committed.code, committed.dimensions)
    /\ IF Scheduled(committed.dimensions)
       THEN /\ triggers' = Count(rafQueue, triggers)
            /\ drawAtZero' = atZero
       ELSE UNCHANGED <<triggers, drawAtZero>>
    /\ lastFrame' = <<>>
    /\ UNCHANGED <<changes, mounted, observing, code, dimensions, error,
                   legendItems, chartInstance, surface, hostSize, observed,
                   view, committed, queued, cleanupDue, atZero, external>>

(* The pass of this frame ran on what the component holds now, and no     *)
(* change is still on its way: none to the draw effect, no report to the   *)
(* observer.                                                               *)
Answered ==
    /\ rafQueue[Len(rafQueue)] = Deps(code, dimensions)
    /\ ~TriggerPending
    /\ mounted
    /\ observed = ContainerRect(hostSize, view)

(* The next animation frame: the queued callbacks run.  The state they set *)
(* waits for React's next render; a component React has removed ignores it. *)
Frame ==
    /\ rafQueue # <<>>
    /\ \E r \in {RunCallbacks(rafQueue,
                     [error |-> error, legendItems |-> legendItems,
                      surface |-> surface, chartInstance |-> chartInstance,
                      attached |-> mounted],
                     <<>>)} :
        /\ IF mounted
           THEN /\ error' = r.st.error
                /\ legendItems' = r.st.legendItems
                /\ queued' = queued \cup {"state"}
           ELSE UNCHANGED <<error, legendItems, queued>>
        /\ surface' = r.st.surface
        /\ chartInstance' = r.st.chartInstance
        /\ lastFrame' = r.log
    /\ rafQueue' = <<>>
    /\ external' = IF external = "pending" /\ Answered
                   THEN "none" ELSE external
    /\ UNCHANGED <<changes, mounted, observing, code, dimensions, hostSize,
                   observed, view, committed, effectDue, cleanupDue, triggers,
                   atZero, drawAtZero>>

(* React removes the component: its DOM goes and the refs are detached.    *)
(* What was set and not rendered is dropped; the effects' cleanups run in  *)
(* a later turn.                                                           *)
Unmount ==
    /\ mounted
    /\ ~effectDue
    /\ mounted' = FALSE
    /\ cleanupDue' = TRUE
    /\ queued' = {}
    /\ lastFrame' = <<>>
    /\ UNCHANGED <<changes, observing, code, dimensions, error, legendItems,
                   chartInstance, surface, hostSize, observed, rafQueue,
                   view, committed, effectDue, triggers, atZero, drawAtZero,
                   external>>

(* observer.disconnect() *)
Disconnect(on) == FALSE

(* The cleanups of both effects after the removal (observer.disconnect(),  *)
(* cancelAnimationFrame(rafId)).                                           *)
Cleanups ==
    /\ cleanupDue
    /\ cleanupDue' = FALSE
    /\ observing' = Disconnect(observing)
    /\ rafQueue' = Cleanup(rafQueue)
    /\ lastFrame' = <<>>
    /\ UNCHANGED <<changes, mounted, code, dimensions, error, legendItems,
                   chartInstance, surface, hostSize, observed, view,
                   committed, queued, effectDue, triggers, atZero,
                   drawAtZero, external>>

Next ==
    \/ \E c \in Codes : CodeChange(c)
    \/ \E size \in Sizes : HostResize(size)
    \/ ObserverReport
    \/ Commit
    \/ RunEffect
    \/ Frame
    \/ Unmount
    \/ Cleanups

Spec == Init /\ [][Next]_vars

(* The scheduling the browser and React guarantee: a queued animation-     *)
(* frame callback runs at the next frame, a change of the observed content *)
(* rect is delivered to the ResizeObserver callback, and React renders     *)
(* what was set and runs the effects of what it committed.                 *)
InitLive == Init /\ code \in LiveCodes

NextLive ==
    \/ \E c \in LiveCodes : CodeChange(c)
    \/ \E size \in Sizes : HostResize(size)
    \/ ObserverReport
    \/ Commit
    \/ RunEffect
    \/ Frame
    \/ Unmount
    \/ Cleanups

SpecLive ==
    /\ InitLive
    /\ [][NextLive]_vars
    /\ WF_vars(Frame)
    /\ WF_vars(ObserverReport)
    /\ WF_vars(Commit)
    /\ WF_vars(RunEffect)
    /\ WF_vars(Cleanups)

(* Normalization and series processing over the wide input set: the        *)
(* component is mounted with the text in a wide box, measured, and the     *)
(* draw is pending.                                                        *)
InitWide ==
    /\ mounted = TRUE
    /\ observing = TRUE
    /\ code \in WideCodes
    /\ hostSize = [width |-> MaxSeries, height |-> HighBox]
    /\ observed = hostSize
    /\ dimensions = hostSize
    /\ error = Null
    /\ legendItems = <<>>
    /\ chartInstance = <<>>
    /\ surface = <<>>
    /\ rafQueue = DrawEffect(<<>>, code, dimensions)
    /\ view = Render(Null, <<>>)
    /\ committed = Deps(code, dimensions)
    /\ queued = {}
    /\ effectDue = FALSE
    /\ cleanupDue = FALSE
    /\ lastFrame = <<>>
    /\ triggers = 1
    /\ atZero = FALSE
    /\ drawAtZero = FALSE
    /\ changes = 0
    /\ external = "pending"

NextWide ==
    \/ ObserverReport
    \/ Commit
    \/ RunEffect
    \/ Frame

SpecWide == InitWide /\ [][NextWide]_vars

-----------------------------------------------------------------------------
(* Properties *)

ParseMessage == Str("Failed to parse diagram")
GenericMessage == Str("Invalid graph data.")

(* The shapes of a decoded text: the branch line 90 takes.  Any value but *)
(* null (on which parsed.data throws) without an array `data` is legacy:   *)
(* an object, and a number, a string, a boolean or an array as well.       *)
LegacyShape(text) ==
    text.wf /\ ~Nullish(text.doc) /\ ~IsArray(Get(text.doc, "data"))

AdvancedShape(text) ==
    text.wf /\ text.doc.t = "object" /\ IsArray(Get(text.doc, "data"))

(* The series a pass mapped over (config.data). *)
DataOf(pass) == Get(pass.config, "data").v

(* The pass of the frame that produced this state. *)
ThePass == lastFrame[1]

(* What React has rendered is what the component holds: nothing was set   *)
(* since the last commit.                                                  *)
StateRendered == mounted /\ "state" \notin queued

(* C1: while mounted, however many triggers (commits of a new text or of  *)
(* new dimensions) came since the last frame, exactly one draw is pending; *)
(* the frame runs exactly one render pass, on the text and the dimensions  *)
(* of the latest commit, and a pass on valid input (one that gets through  *)
(* parsing, normalization and series processing) invokes the engine        *)
(* exactly once.                                                           *)
C1_OnePassPerFrame ==
    /\ (mounted /\ rafQueue # <<>>) =>
          /\ Len(rafQueue) = 1
          /\ triggers >= 1
    /\ (mounted /\ lastFrame # <<>>) =>
          /\ Len(lastFrame) = 1
          /\ Deps(ThePass.code, ThePass.dimensions) = committed
          /\ Len(ThePass.calls) <= 1
          /\ ThePass.processedOk => Len(ThePass.calls) = 1

(* C2: no frame invokes the engine for a draw whose triggers all came      *)
(* while the container had a zero side.                                    *)
C2_NoDrawAtZeroSize ==
    \A i \in 1..Len(lastFrame) : lastFrame[i].calls # <<>> => ~drawAtZero

(* C3 as claimed: after a pass of the mounted component on a text that     *)
(* fails JSON decode the error is the parse message and the legend state   *)
(* is empty.                                                               *)
C3_LegendEmptyAfterParseFailure ==
    \A i \in 1..Len(lastFrame) :
        (mounted /\ lastFrame[i].stage = "parse") =>
            error = ParseMessage /\ legendItems = <<>>

(* C3 as amended: a pass of the mounted component on a text that fails     *)
(* JSON decode ends with the parse message as the error and leaves the     *)
(* legend state as it was before the pass; once React has rendered that    *)
(* error the banner shows it and the legend region is not shown.           *)
C3_LegendKeptAfterParseFailure ==
    /\ [][(mounted /\ lastFrame' # <<>> /\ lastFrame'[1].stage = "parse") =>
             /\ error' = ParseMessage
             /\ legendItems' = legendItems]_vars
    /\ []((StateRendered /\ error = ParseMessage) =>
             /\ ~view.legendRegion
             /\ view.banner = ParseMessage)

(* A parse failure after a successful render, rendered: the legend state   *)
(* is stale and the legend region hidden.                                  *)
C3_Witness ==
    /\ StateRendered
    /\ committed.code = BadText
    /\ legendItems # <<>>
    /\ error = ParseMessage
    /\ view.banner = ParseMessage

(* C4: whatever a pass throws (parse, normalization, series processing or  *)
(* the engine), it does not escape the callback; the error state of the    *)
(* mounted component is the message of a thrown Error and the generic      *)
(* message for any other thrown value.                                     *)
C4_ExceptionsBecomeFailed ==
    \A i \in 1..Len(lastFrame) :
        lastFrame[i].threw =>
            /\ ~lastFrame[i].escaped
            /\ mounted =>
                  error = IF lastFrame[i].exc.isError
                          THEN Str(lastFrame[i].exc.message)
                          ELSE GenericMessage

(* The engine threw a value that is no Error. *)
C4_Witness ==
    /\ mounted
    /\ lastFrame # <<>>
    /\ ThePass.stage = "engine"
    /\ ~ThePass.exc.isError
    /\ error = GenericMessage

(* C5: the legend region and the banner are never both shown; what is      *)
(* shown follows the state React has rendered: the legend region only with *)
(* a non-empty legend state and no error; with an error the banner shows   *)
(* it and the legend region is hidden.                                     *)
C5_LegendXorBanner ==
    /\ ~(view.legendRegion /\ view.banner # Null)
    /\ view.legendRegion <=> view.legend # <<>>
    /\ StateRendered =>
          /\ view.legendRegion <=> (legendItems # <<>> /\ error = Null)
          /\ error # Null => (view.banner = error /\ ~view.legendRegion)
          /\ error = Null => view.banner = Null

(* An error with a stale non-empty legend in state, rendered. *)
C5_Witness ==
    /\ StateRendered
    /\ error # Null
    /\ legendItems # <<>>
    /\ ~view.legendRegion
    /\ view.banner = error

(* C6: from a state whose last pass ended Failed, with no change of the    *)
(* input text or of the host's size from outside since, no step runs a     *)
(* render pass.                                                            *)
C6_NoRetryAfterFailure ==
    [][(mounted /\ Truthy(error) /\ external = "none") =>
           lastFrame' = <<>>]_vars

(* C7 as claimed: a legacy-shape object yields one series with expression  *)
(* fn ("x" when absent), polyline, first palette color, x-domain the       *)
(* declared domain ([-10,10] when absent), y-domain [-10,10], grid on.     *)
C7_LegacyAbsentDefaults ==
    \A i \in 1..Len(lastFrame) :
        LET pass == lastFrame[i]
            doc == pass.code.doc
        IN  LegacyShape(pass.code) =>
              /\ Len(DataOf(pass)) = 1
              /\ Len(pass.processed) = 1
              /\ Len(pass.calls) = 1
              /\ pass.processed[1].fn =
                    (IF Get(doc, "fn") = Undef THEN Str("x")
                     ELSE Get(doc, "fn"))
              /\ pass.processed[1].graphType = Str("polyline")
              /\ pass.processed[1].color = Str(LEGEND_COLORS[1])
              /\ pass.calls[1].xDomain =
                    (IF Get(doc, "domain") = Undef THEN DefaultDomain
                     ELSE Get(doc, "domain"))
              /\ pass.calls[1].yDomain = DefaultDomain
              /\ pass.calls[1].grid = TRUE

(* C7 as amended: the expression is fn when fn is truthy and "x" when it   *)
(* is absent or falsy (the empty string); the x-domain is the declared     *)
(* domain when it is truthy and [-10,10] when it is absent or falsy (null).*)
C7_LegacyFalsyDefaults ==
    \A i \in 1..Len(lastFrame) :
        LET pass == lastFrame[i]
            doc == pass.code.doc
        IN  LegacyShape(pass.code) =>
              /\ Len(DataOf(pass)) = 1
              /\ Len(pass.processed) = 1
              /\ Len(pass.calls) = 1
              /\ pass.processed[1].fn =
                    (IF Truthy(Get(doc, "fn")) THEN Get(doc, "fn")
                     ELSE Str("x"))
              /\ pass.processed[1].graphType = Str("polyline")
              /\ pass.processed[1].color = Str(LEGEND_COLORS[1])
              /\ pass.calls[1].xDomain =
                    (IF Truthy(Get(doc, "domain")) THEN Get(doc, "domain")
                     ELSE DefaultDomain)
              /\ pass.calls[1].yDomain = DefaultDomain
              /\ pass.calls[1].grid = TRUE

(* {"fn": "", "domain": [0, 5]}: the empty fn is replaced, the domain kept. *)
C7_Witness ==
    /\ lastFrame # <<>>
    /\ ThePass.code =
          Legacy(Str(""), Arr(<<Num(0), Num(5)>>), Undef, Undef)
    /\ ThePass.processed[1].fn = Str("x")
    /\ ThePass.calls[1].xDomain = Arr(<<Num(0), Num(5)>>)

(* C8: after a pass on an advanced-shape text that reaches series          *)
(* processing, the legend state has one entry per entry of data, entry i   *)
(* being the processed entry i.                                            *)
C8_LegendMatchesData ==
    \A i \in 1..Len(lastFrame) :
        LET pass == lastFrame[i]
        IN  (AdvancedShape(pass.code) /\ pass.cleared) =>
              /\ Len(legendItems) = Len(DataOf(pass))
              /\ \A k \in 1..Len(legendItems) :
                    /\ ProcessItem(DataOf(pass)[k], k - 1).ok
                    /\ legendItems[k] =
                          ProcessItem(DataOf(pass)[k], k - 1).value

(* C9: a processed series whose input kind is implicit has no range, and   *)
(* its render mode is the entry's own when it gives one, else interval;    *)
(* the legend state holds the same series.                                 *)
C9_ImplicitHasNoRange ==
    \A i \in 1..Len(lastFrame) :
        LET pass == lastFrame[i]
        IN  pass.processedOk =>
              \A k \in 1..Len(DataOf(pass)) :
                  Get(DataOf(pass)[k], "fnType") = Str("implicit") =>
                      /\ pass.processed[k].range = Undef
                      /\ legendItems[k].range = Undef
                      /\ pass.processed[k].graphType =
                            (IF Truthy(Get(DataOf(pass)[k], "graphType"))
                             THEN Get(DataOf(pass)[k], "graphType")
                             ELSE Str("interval"))

(* An implicit series given a two-element range: the range is stripped.    *)
C9_Witness ==
    /\ lastFrame # <<>>
    /\ ThePass.processedOk
    /\ Len(DataOf(ThePass)) = 1
    /\ Get(DataOf(ThePass)[1], "fnType") = Str("implicit")
    /\ Get(DataOf(ThePass)[1], "range") = Arr(<<Num(0), Num(5)>>)
    /\ ThePass.processed[1].range = Undef
    /\ ThePass.processed[1].graphType = Str("interval")

(* A range as the data model wants it: absent, or two numbers min <= max.  *)
WellFormedRange(r) ==
    \/ r = Undef
    \/ /\ IsArray(r)
       /\ Len(r.v) = 2
       /\ r.v[1].t = "number"
       /\ r.v[2].t = "number"
       /\ r.v[1].v <= r.v[2].v

(* C10: every processed series has a well formed range.                    *)
C10_RangeWellFormed ==
    \A i \in 1..Len(lastFrame) :
        \A k \in 1..Len(lastFrame[i].processed) :
            WellFormedRange(lastFrame[i].processed[k].range)

(* A string with at least one character. *)
NonEmptyString(x) == x.t = "string" /\ x.v # ""

(* C11: every series a pass has processed, from a legacy or an advanced    *)
(* text, has a non-empty color and a non-empty label; the label is the     *)
(* entry's own label when it has one, else its expression when it has one, *)
(* else "Function {index+1}"; for a legacy text the entry's expression is  *)
(* fn, or "x" when fn is missing or empty.  The legend state holds the     *)
(* same colors and labels.                                                 *)
C11_ColorAndLabelNonEmpty ==
    \A i \in 1..Len(lastFrame) :
        LET pass == lastFrame[i]
        IN  pass.processedOk =>
              /\ \A k \in 1..Len(pass.processed) :
                    /\ NonEmptyString(pass.processed[k].color)
                    /\ NonEmptyString(pass.processed[k].label)
                    /\ pass.processed[k].label =
                          (IF NonEmptyString(Get(DataOf(pass)[k], "label"))
                           THEN Get(DataOf(pass)[k], "label")
                           ELSE IF NonEmptyString(Get(DataOf(pass)[k], "fn"))
                                THEN Get(DataOf(pass)[k], "fn")
                                ELSE Str(FunctionLabel(k - 1)))
                    /\ legendItems[k].color = pass.processed[k].color
                    /\ legendItems[k].label = pass.processed[k].label
              /\ LegacyShape(pass.code) =>
                    pass.processed[1].label =
                        (IF NonEmptyString(Get(pass.code.doc, "fn"))
                         THEN Get(pass.code.doc, "fn") ELSE Str("x"))

(* An entry with neither label nor expression, after a labelled one: it is *)
(* named by its position.                                                  *)
C11_Witness ==
    /\ lastFrame # <<>>
    /\ ThePass.processedOk
    /\ Len(ThePass.processed) = 2
    /\ Get(DataOf(ThePass)[2], "label") = Str("")
    /\ Get(DataOf(ThePass)[2], "fn") = Undef
    /\ ThePass.processed[2].label = Str("Function 2")
    /\ ThePass.processed[1].label = Str("sin(x)")

(* The fixed palette has seven entries. *)
PaletteSize == Len(LEGEND_COLORS)

(* C12: the color of the processed series at index i is the entry's own    *)
(* color when it gives one and entry (i mod 7) of the seven-entry palette  *)
(* otherwise: it depends on the entry and its index only, so equal entries *)
(* at equal indices get equal colors in every pass.                        *)
C12_ColorByIndex ==
    /\ PaletteSize = 7
    /\ \A i \in 1..Len(lastFrame) :
          LET pass == lastFrame[i]
          IN  pass.processedOk =>
                \A k \in 1..Len(pass.processed) :
                    /\ pass.processed[k].color =
                          (IF NonEmptyString(Get(DataOf(pass)[k], "color"))
                           THEN Get(DataOf(pass)[k], "color")
                           ELSE Str(LEGEND_COLORS[((k - 1) % 7) + 1]))
                    /\ legendItems[k].color = pass.processed[k].color

(* Eight series: the eighth gets the first palette color again, the third  *)
(* keeps its own.                                                          *)
C12_Witness ==
    /\ lastFrame # <<>>
    /\ ThePass.processedOk
    /\ Len(ThePass.processed) = 8
    /\ ThePass.processed[8].color = Str(LEGEND_COLORS[1])
    /\ ThePass.processed[7].color = Str(LEGEND_COLORS[7])
    /\ ThePass.processed[3].color = Str("#000")

C14_OneSurface ==
    /\ Len(surface) <= 1
    /\ \A i \in 1..Len(lastFrame) :
          /\ Len(lastFrame[i].calls) <= 1
          /\ lastFrame[i].calls # <<>> => lastFrame[i].cleared
          /\ lastFrame[i].stage = "done" => surface = lastFrame[i].calls

(* A redraw at the size the container has with the legend shown: the host  *)
(* element held the earlier plot and holds the new one alone.              *)
C14_Witness ==
    /\ lastFrame # <<>>
    /\ ThePass.stage = "done"
    /\ ThePass.cleared
    /\ Len(surface) = 1
    /\ external = "none"
    /\ view.legendRegion
    /\ ThePass.dimensions.height =
          hostSize.height - LegendHeight(view, hostSize.width)

(* C15: no step after the unmount updates the dimensions, runs a pass,     *)
(* sets the error or the legend, touches the surface or invokes the        *)
(* engine, and once the cleanups have run the observer is disconnected and *)
(* no draw is pending.                                                     *)
C15_NothingAfterUnmount ==
    [][/\ (~mounted' /\ ~cleanupDue') => (~observing' /\ rafQueue' = <<>>)
       /\ ~mounted =>
              /\ UNCHANGED <<dimensions, error, legendItems, surface,
                             chartInstance>>
              /\ lastFrame' = <<>>]_vars

(* C16: in a pass on an advanced-shape text that reaches series            *)
(* processing, every entry that is not itself malformed (null) is          *)
(* processed and stands at its position in the legend state and in the     *)
(* series list the engine is given, whatever its siblings are.             *)
C16_SiblingsSurvive ==
    \A i \in 1..Len(lastFrame) :
        LET pass == lastFrame[i]
        IN  (AdvancedShape(pass.code) /\ pass.cleared) =>
              \A k \in 1..Len(DataOf(pass)) :
                  ~Nullish(DataOf(pass)[k]) =>
                      /\ k <= Len(legendItems)
                      /\ legendItems[k] =
                            ProcessItem(DataOf(pass)[k], k - 1).value
                      /\ Len(pass.calls) = 1
                      /\ k <= Len(pass.calls[1].data)
                      /\ pass.calls[1].data[k] = legendItems[k]

(* C17: the processed vector is absent when the entry gives none or one    *)
(* of fewer than two elements, and else the pair of its first two          *)
(* elements.                                                               *)
C17_VectorPairOrAbsent ==
    \A i \in 1..Len(lastFrame) :
        LET pass == lastFrame[i]
        IN  pass.processedOk =>
              \A k \in 1..Len(pass.processed) :
                  pass.processed[k].vector =
                      (IF /\ IsArray(Get(DataOf(pass)[k], "vector"))
                          /\ Len(Get(DataOf(pass)[k], "vector").v) >= 2
                       THEN Arr(<<Get(DataOf(pass)[k], "vector").v[1],
                                  Get(DataOf(pass)[k], "vector").v[2]>>)
                       ELSE Undef)

(* The kinds of the data model. *)
Kinds ==
    {Str("linear"), Str("implicit"), Str("parametric"), Str("points"),
     Str("vector")}

(* C18: the processed kind is one of the five kinds: the entry's own when  *)
(* that is one of them, linear when it is missing or unrecognized.         *)
C18_KindIsOneOfFive ==
    \A i \in 1..Len(lastFrame) :
        LET pass == lastFrame[i]
        IN  pass.processedOk =>
              \A k \in 1..Len(pass.processed) :
                  /\ pass.processed[k].fnType \in Kinds
                  /\ pass.processed[k].fnType =
                        (IF Get(DataOf(pass)[k], "fnType") \in Kinds
                         THEN Get(DataOf(pass)[k], "fnType")
                         ELSE Str("linear"))

(* C20: the retained plot handle, when set, is the handle of the plot the  *)
(* host element holds.                                                     *)
C20_HandleIsLivePlot ==
    chartInstance # <<>> => surface = chartInstance

(* No change from outside in this step: no new input text, no resize of    *)
(* the outer box, no unmount.                                              *)
Quiet == UNCHANGED <<code, hostSize, mounted>>

(* What a pass on the current text at the current dimensions leaves. *)
Outcome ==
    drawGraph([code |-> code, dimensions |-> dimensions],
              [error |-> error, legendItems |-> legendItems,
               surface |-> surface, chartInstance |-> chartInstance,
               attached |-> mounted])

(* Rendered or Failed for the latest input, nothing pending: React has     *)
(* rendered everything and run its effects, no draw is queued, no report   *)
(* is due, the error is the one a pass on the current    *)
(* text gives (none when it renders), the host element holds what that     *)
(* pass draws, and when there is no error the legend is the processed      *)
(* series of the current text.                                             *)
Settled ==
    /\ ~TriggerPending
    /\ queued = {}
    /\ rafQueue = <<>>
    /\ observed = ContainerRect(hostSize, view)
    /\ error = Outcome.st.error
    /\ surface = Outcome.st.surface
    /\ view = Render(error, legendItems)
    /\ error = Null =>
          /\ Outcome.pass.stage = "done"
          /\ legendItems = Outcome.pass.processed

(* C19: in every fair behaviour in which the component stays mounted, the  *)
(* dimensions are positive from some point on and the changes from outside *)
(* stop, the coordinator settles for good: Rendered or Failed for the      *)
(* latest input with no draw pending.  The legend's showing or hiding      *)
(* causes no endless redrawing.                                            *)
C19_EventuallySettled ==
    (<>[](mounted /\ dimensions.width > 0 /\ dimensions.height > 0)
       /\ <>[][Quiet]_vars)
    => <>[]Settled

(* Settled after the redraw that the legend's appearing caused: the pass   *)
(* ran at the container's size with the legend shown.                      *)
C19_Witness ==
    /\ mounted
    /\ Settled
    /\ error = Null
    /\ view.legendRegion
    /\ dimensions.height =
          hostSize.height - LegendHeight(view, hostSize.width)
    /\ external = "none"

====
